---- MODULE Spec2Model ----
(***************************************************************************)
(* Businesses / reviews REST API of src/main.py over its two MySQL tables. *)
(*                                                                         *)
(* The state is the content of the two tables with their AUTO_INCREMENT    *)
(* counters, the position of every request being handled, and the last    *)
(* response sent.  A handler that issues one SQL statement is one action;  *)
(* a handler that issues a SELECT and then a mutating statement is one     *)
(* action per statement, so that requests of different workers can         *)
(* interleave between statements.  Spec handles requests one at a time,    *)
(* SpecConc lets them interleave.                                          *)
(*                                                                         *)
(* JSON values and SQL column values are tagged records, so that the       *)
(* JSON number 1, the JSON string "1" and null stay different values and   *)
(* the conversions done by the columns of the schema are visible.          *)
(***************************************************************************)
EXTENDS Integers, Sequences, FiniteSets, TLC

(* ------------------------------ bounds --------------------------------- *)

\* number of requests received in one behaviour of Spec
MaxRequests == 4

\* number of requests received in one behaviour of SpecConc
MaxConcurrentRequests == 3

\* worker processes serving requests
Procs == {1, 2}

(* --------------------------- values ------------------------------------ *)

JInt(n) == [t |-> "int", n |-> n]
JStr(s) == [t |-> "str", s |-> s]
JNull == [t |-> "null"]

\* the decimal numerals the inputs use, for the string <-> integer
\* conversions MySQL applies to a parameter
Numeral == ("1" :> 1) @@ ("2" :> 2) @@ ("3" :> 3) @@ ("10001" :> 10001)

IsNumeric(v) == v.t = "int" \/ (v.t = "str" /\ v.s \in DOMAIN Numeral)

AsInt(v) == IF v.t = "int" THEN v.n ELSE Numeral[v.s]

\* Python's == between two JSON-decoded values: 1 == "1" is False
PyEq(a, b) == a = b

\* src/main.py:12-18
BUSINESSES == "businesses"
REVIEWS == "reviews"
BUSINESSES_REQUIRED_ATTRIBUTES ==
    {"owner_id", "name", "street_address", "city", "state", "zip_code"}
REVIEWS_REQUIRED_ATTRIBUTES == {"user_id", "business_id", "stars"}
POST_PUT_ERROR ==
    [Error |-> "The request body is missing at least one of the required attributes"]

(* --------------------------- schema ------------------------------------ *)

\* CREATE TABLE businesses: the non-key columns
BusinessesColumns ==
    [owner_id       |-> [type |-> "INT",     len |-> 0,   notnull |-> TRUE],
     name           |-> [type |-> "VARCHAR", len |-> 50,  notnull |-> TRUE],
     street_address |-> [type |-> "VARCHAR", len |-> 100, notnull |-> TRUE],
     city           |-> [type |-> "VARCHAR", len |-> 50,  notnull |-> TRUE],
     state          |-> [type |-> "VARCHAR", len |-> 2,   notnull |-> TRUE],
     zip_code       |-> [type |-> "INT",     len |-> 0,   notnull |-> TRUE]]

\* CREATE TABLE reviews: the non-key columns (business_id is the foreign key)
ReviewsColumns ==
    [user_id     |-> [type |-> "INT",     len |-> 0,    notnull |-> TRUE],
     business_id |-> [type |-> "BIGINT",  len |-> 0,    notnull |-> TRUE],
     stars       |-> [type |-> "INT",     len |-> 0,    notnull |-> TRUE],
     review_text |-> [type |-> "VARCHAR", len |-> 1000, notnull |-> FALSE]]

\* does the column take the parameter v (MySQL's default, strict, sql_mode)
Accepts(col, v) ==
    CASE v.t = "null" -> ~col.notnull
      [] col.type = "INT" ->
            IsNumeric(v) /\ AsInt(v) >= -2147483647 - 1 /\ AsInt(v) <= 2147483647
      [] col.type = "BIGINT" -> IsNumeric(v)
      [] OTHER ->
            \/ v.t = "str" /\ Len(v.s) <= col.len
            \/ v.t = "int" /\ \E s \in DOMAIN Numeral : Numeral[s] = v.n /\ Len(s) <= col.len

\* the value the column stores for an accepted parameter v
Stored(col, v) ==
    CASE v.t = "null" -> JNull
      [] col.type \in {"INT", "BIGINT"} -> JInt(AsInt(v))
      [] OTHER ->
            IF v.t = "str" THEN v
            ELSE JStr(CHOOSE s \in DOMAIN Numeral : Numeral[s] = v.n)

\* the rows of table whose integer column col equals the parameter v
\* (WHERE col = :v); NULL and a non-numeric string match no row of ours
SelectWhere(table, col, v) ==
    IF IsNumeric(v) THEN {r \in table : r[col] = AsInt(v)} ELSE {}

(* --------------------------- inputs ------------------------------------ *)

\* the example payload of the specification and a second one that differs
\* from it in every attribute
BP1 == [owner_id |-> JInt(1), name |-> JStr("A"), street_address |-> JStr("1 Main"),
        city |-> JStr("X"), state |-> JStr("CA"), zip_code |-> JInt(90001)]
BP2 == [owner_id |-> JInt(2), name |-> JStr("B"), street_address |-> JStr("2 Oak"),
        city |-> JStr("Y"), state |-> JStr("NY"), zip_code |-> JInt(10001)]
\* zip_code missing
BPMissing == [owner_id |-> JInt(1), name |-> JStr("A"), street_address |-> JStr("1 Main"),
              city |-> JStr("X"), state |-> JStr("CA")]
\* all six attributes present, name is JSON null
BPNull == [BP1 EXCEPT !.name = JNull]
\* all six attributes present, zip_code is the JSON string "10001"
BPStrZip == [BP2 EXCEPT !.zip_code = JStr("10001")]

BusinessPayloads == {BP1, BP2, BPMissing, BPNull, BPStrZip}

PathBusinessIds == {1, 2, 3}
PathReviewIds == {1, 2}

UserIds == {JInt(1), JInt(2), JInt(3), JStr("1")}
ReviewBusinessIds == {JInt(1), JInt(2)}

PostReviewPayloads ==
    {[user_id |-> u, business_id |-> b, stars |-> JInt(4)] :
        u \in UserIds, b \in ReviewBusinessIds}
    \cup {[user_id |-> u, business_id |-> b, stars |-> JInt(4), review_text |-> JStr("good")] :
        u \in UserIds, b \in ReviewBusinessIds}
    \cup {[user_id |-> JInt(1), business_id |-> b] : b \in ReviewBusinessIds}

PutReviewPayloads ==
    {[stars |-> JInt(5)],
     [stars |-> JInt(5), review_text |-> JStr("bad")],
     [review_text |-> JStr("bad")]}

NoContent == [nothing |-> JNull]
NoQuery == [present |-> FALSE, offset |-> 0, limit |-> 0]
\* GET /businesses?offset=0&limit=2
Queries == {NoQuery, [present |-> TRUE, offset |-> 0, limit |-> 2]}

Request(op, id, content, query) ==
    [op |-> op, id |-> id, content |-> content, query |-> query]
NoRequest == Request("none", 0, NoContent, NoQuery)
NoRow == [nothing |-> JNull]

(* --------------------------- state ------------------------------------- *)

VARIABLES
    businesses,        \* rows of table businesses
    reviews,           \* rows of table reviews
    next_business_id,  \* AUTO_INCREMENT of businesses.business_id
    next_review_id,    \* AUTO_INCREMENT of reviews.review_id
    pc,                \* per worker: the statement its handler runs next
    req,               \* per worker: the request being handled
    row,               \* per worker: the handler's local variable row
    last               \* the latest response, with its request and number

vars == <<businesses, reviews, next_business_id, next_review_id, pc, req, row, last>>
tables == <<businesses, reviews, next_business_id, next_review_id>>

Init ==
    /\ businesses = {}
    /\ reviews = {}
    /\ next_business_id = 1
    /\ next_review_id = 1
    /\ pc = [p \in Procs |-> "idle"]
    /\ req = [p \in Procs |-> NoRequest]
    /\ row = [p \in Procs |-> NoRow]
    /\ last = [seq |-> 0, req |-> NoRequest, resp |-> [status |-> 0, body |-> NoContent]]

AllIdle == \A q \in Procs : pc[q] = "idle"

\* requests received so far
Started == last.seq + Cardinality({q \in Procs : pc[q] # "idle"})

\* worker p is free to take a new request
CanBegin(p) == pc[p] = "idle"

\* worker p sends the response of request r and is free again
Respond(p, r, status, body) ==
    /\ last' = [seq |-> last.seq + 1, req |-> r, resp |-> [status |-> status, body |-> body]]
    /\ pc' = [pc EXCEPT ![p] = "idle"]
    /\ req' = [req EXCEPT ![p] = NoRequest]
    /\ row' = [row EXCEPT ![p] = NoRow]

\* worker p goes on to its next statement
Goto(p, r, label, local) ==
    /\ pc' = [pc EXCEPT ![p] = label]
    /\ req' = [req EXCEPT ![p] = r]
    /\ row' = [row EXCEPT ![p] = local]
    /\ UNCHANGED last

(* --------------------------- helpers ----------------------------------- *)

validate_business_post_put(request_json, attributes) ==
    \A key \in attributes : key \in DOMAIN request_json

\* a URL is the sequence of its path segments
generate_self_url(url, id) == Append(url, id)

generate_not_found_message(business_or_review, id_attribute) ==
    [Error |-> IF business_or_review = BUSINESSES
               THEN "No business with this " \o id_attribute \o " exists"
               ELSE "No review with this " \o id_attribute \o " exists"]

\* the exception page Flask sends when a handler raises
InternalServerError == [Error |-> "Internal Server Error"]

\* do the columns take the parameters the statement binds to them
AcceptsAll(columns, names, content) ==
    \A c \in names : Accepts(columns[c], content[c])

\* Row._asdict() of a businesses row
BusinessDict(b) ==
    [business_id |-> JInt(b.business_id), owner_id |-> b.owner_id, name |-> b.name,
     street_address |-> b.street_address, city |-> b.city, state |-> b.state,
     zip_code |-> b.zip_code]

\* Row._asdict() of a reviews row
ReviewDict(r) ==
    [review_id |-> JInt(r.review_id), user_id |-> r.user_id,
     business_id |-> JInt(r.business_id), stars |-> r.stars, review_text |-> r.review_text]

\* the body post_business and put_business build from the payload
BusinessEcho(id, content, self) ==
    [id |-> JInt(id), owner_id |-> content.owner_id, name |-> content.name,
     street_address |-> content.street_address, city |-> content.city,
     state |-> content.state, zip_code |-> content.zip_code, self |-> self]

\* the rows of a table in the order of an integer key
RECURSIVE OrderBy(_, _)
OrderBy(table, key) ==
    IF table = {} THEN <<>>
    ELSE LET first == CHOOSE r \in table : \A o \in table : r[key] <= o[key]
         IN <<first>> \o OrderBy(table \ {first}, key)

\* ... LIMIT :limit OFFSET :offset
LimitOffset(rows, limit, offset) ==
    SubSeq(rows, offset + 1, IF offset + limit < Len(rows) THEN offset + limit ELSE Len(rows))

(* --------------------------- businesses -------------------------------- *)

\* a mis-bound parameter list: city and state exchanged
BusinessRowSwapped(business_id, content) ==
    [business_id    |-> business_id,
     owner_id       |-> Stored(BusinessesColumns.owner_id, content.owner_id),
     name           |-> Stored(BusinessesColumns.name, content.name),
     street_address |-> Stored(BusinessesColumns.street_address, content.street_address),
     city           |-> Stored(BusinessesColumns.city, content.state),
     state          |-> Stored(BusinessesColumns.state, content.city),
     zip_code       |-> Stored(BusinessesColumns.zip_code, content.zip_code)]

\* the row the INSERT and the UPDATE of businesses write: every parameter
\* bound to the column of its name
BusinessRow(business_id, content) ==
    [business_id    |-> business_id,
     owner_id       |-> Stored(BusinessesColumns.owner_id, content.owner_id),
     name           |-> Stored(BusinessesColumns.name, content.name),
     street_address |-> Stored(BusinessesColumns.street_address, content.street_address),
     city           |-> Stored(BusinessesColumns.city, content.city),
     state          |-> Stored(BusinessesColumns.state, content.state),
     zip_code       |-> Stored(BusinessesColumns.zip_code, content.zip_code)]

\* POST /businesses
post_business(p) ==
    /\ CanBegin(p)
    /\ \E content \in BusinessPayloads :
        LET r == Request("post_business", 0, content, NoQuery)
            business_id == next_business_id
        IN  IF ~validate_business_post_put(content, BUSINESSES_REQUIRED_ATTRIBUTES)
            THEN /\ Respond(p, r, 400, POST_PUT_ERROR)
                 /\ UNCHANGED tables
            ELSE IF ~AcceptsAll(BusinessesColumns, BUSINESSES_REQUIRED_ATTRIBUTES, content)
            THEN \* the INSERT raises, the handler logs and answers 500
                 /\ Respond(p, r, 500, [Error |-> "Unable to create business"])
                 /\ UNCHANGED tables
            ELSE /\ businesses' = businesses \cup
                        {BusinessRow(business_id, content)}
                 /\ next_business_id' = next_business_id + 1
                 /\ UNCHANGED <<reviews, next_review_id>>
                 /\ Respond(p, r, 201,
                        BusinessEcho(business_id, content,
                                     generate_self_url(<<BUSINESSES>>, business_id)))

\* the entries and the next link get_businesses builds from the rows read
\* with the page window (limit, offset); "raise" when the handler raises
BusinessesPage(rows, limit, offset) ==
    LET entries == [i \in 1..Len(rows) |->
                        BusinessDict(rows[i]) @@
                        [self |-> generate_self_url(<<BUSINESSES>>, rows[i].business_id)]]
    IN  IF Len(rows) = 0
        THEN \* the loop never binds business: len(business) raises
             [raise |-> TRUE, body |-> InternalServerError]
        ELSE LET business == entries[Len(entries)]
             IN  IF Cardinality(DOMAIN business) = limit
                 THEN [raise |-> FALSE,
                       body |-> [entries |-> entries,
                                 next |-> [offset |-> offset + limit, limit |-> limit]]]
                 ELSE [raise |-> FALSE, body |-> [entries |-> entries]]

\* GET /businesses
get_businesses(p) ==
    /\ CanBegin(p)
    /\ \E query \in Queries :
        LET r == Request("get_businesses", 0, NoContent, query)
            offset == 0
            limit == 3
        IN  IF query.present
            THEN \* url[11:] is a list, url.split("&") raises AttributeError
                 Respond(p, r, 500, InternalServerError)
            ELSE LET rows == LimitOffset(OrderBy(businesses, "business_id"), limit, offset)
                     page == BusinessesPage(rows, limit, offset)
                 IN  Respond(p, r, IF page.raise THEN 500 ELSE 200, page.body)
    /\ UNCHANGED tables

\* the response of GET /businesses/<id> over a table content
get_business_response(id, table) ==
    LET found == {b \in table : b.business_id = id}
    IN  IF found = {}
        THEN [status |-> 404, body |-> generate_not_found_message(BUSINESSES, "business_id")]
        ELSE LET business == BusinessDict(CHOOSE b \in found : TRUE)
             IN  [status |-> 200,
                  body |-> [id |-> business.business_id, owner_id |-> business.owner_id,
                            name |-> business.name,
                            street_address |-> business.street_address,
                            city |-> business.city, state |-> business.state,
                            zip_code |-> business.zip_code,
                            self |-> <<BUSINESSES, id>>]]

\* GET /businesses/<id>
get_business(p) ==
    /\ CanBegin(p)
    /\ \E id \in PathBusinessIds :
        LET resp == get_business_response(id, businesses)
        IN  Respond(p, Request("get_business", id, NoContent, NoQuery), resp.status, resp.body)
    /\ UNCHANGED tables

\* put_business with the SELECT before the validation
put_business_lookup_first(p) ==
    /\ CanBegin(p)
    /\ \E id \in PathBusinessIds, content \in BusinessPayloads :
        LET r == Request("put_business", id, content, NoQuery)
        IN  IF {b \in businesses : b.business_id = id} = {}
            THEN Respond(p, r, 404, generate_not_found_message(BUSINESSES, "business_id"))
            ELSE IF ~validate_business_post_put(content, BUSINESSES_REQUIRED_ATTRIBUTES)
            THEN Respond(p, r, 400, POST_PUT_ERROR)
            ELSE Goto(p, r, "put_business_update", NoRow)
    /\ UNCHANGED tables

\* PUT /businesses/<id>: validation and the SELECT
put_business(p) ==
    /\ CanBegin(p)
    /\ \E id \in PathBusinessIds, content \in BusinessPayloads :
        LET r == Request("put_business", id, content, NoQuery)
        IN  IF ~validate_business_post_put(content, BUSINESSES_REQUIRED_ATTRIBUTES)
            THEN Respond(p, r, 400, POST_PUT_ERROR)
            ELSE IF {b \in businesses : b.business_id = id} = {}
            THEN Respond(p, r, 404, generate_not_found_message(BUSINESSES, "business_id"))
            ELSE Goto(p, r, "put_business_update", NoRow)
    /\ UNCHANGED tables

\* PUT /businesses/<id>: the UPDATE, the commit and the answer
put_business_update(p) ==
    /\ pc[p] = "put_business_update"
    /\ LET r == req[p]
           content == r.content
           matched == {b \in businesses : b.business_id = r.id}
       IN  IF matched # {}
              /\ ~AcceptsAll(BusinessesColumns, BUSINESSES_REQUIRED_ATTRIBUTES, content)
           THEN \* the UPDATE raises and nothing catches it
                /\ Respond(p, r, 500, InternalServerError)
                /\ UNCHANGED tables
           ELSE /\ businesses' = (businesses \ matched) \cup
                       {BusinessRow(b.business_id, content) : b \in matched}
                /\ UNCHANGED <<reviews, next_business_id, next_review_id>>
                /\ Respond(p, r, 200, BusinessEcho(r.id, content, <<BUSINESSES, r.id>>))

\* DELETE /businesses/<id>: the SELECT
delete_business(p) ==
    /\ CanBegin(p)
    /\ \E id \in PathBusinessIds :
        LET r == Request("delete_business", id, NoContent, NoQuery)
        IN  IF {b \in businesses : b.business_id = id} = {}
            THEN Respond(p, r, 404, generate_not_found_message(BUSINESSES, "business_id"))
            ELSE Goto(p, r, "delete_business_delete", NoRow)
    /\ UNCHANGED tables

\* the DELETE over a reviews table declared without ON DELETE CASCADE
DeleteFromBusinessesNoCascade(id) ==
    /\ businesses' = {b \in businesses : b.business_id # id}
    /\ UNCHANGED <<reviews, next_business_id, next_review_id>>

\* DELETE FROM businesses WHERE business_id = id, with the foreign key of
\* reviews: ON DELETE CASCADE removes the reviews that reference the row
DeleteFromBusinesses(id) ==
    /\ businesses' = {b \in businesses : b.business_id # id}
    /\ reviews' = {rv \in reviews : rv.business_id # id}
    /\ UNCHANGED <<next_business_id, next_review_id>>

\* DELETE /businesses/<id>: the DELETE, the commit and the answer
delete_business_delete(p) ==
    /\ pc[p] = "delete_business_delete"
    /\ DeleteFromBusinesses(req[p].id)
    /\ Respond(p, req[p], 204, NoContent)

(* --------------------------- reviews ----------------------------------- *)

\* the attributes the INSERT of post_review binds
ReviewInsertAttributes(content) ==
    IF "review_text" \in DOMAIN content
    THEN REVIEWS_REQUIRED_ATTRIBUTES \cup {"review_text"}
    ELSE REVIEWS_REQUIRED_ATTRIBUTES

\* the body post_review builds from the payload
ReviewEcho(review_id, content) ==
    IF "review_text" \in DOMAIN content
    THEN [id |-> JInt(review_id), user_id |-> content.user_id,
          business_id |-> content.business_id, stars |-> content.stars,
          review_text |-> content.review_text,
          self |-> generate_self_url(<<REVIEWS>>, review_id)]
    ELSE [id |-> JInt(review_id), user_id |-> content.user_id,
          business_id |-> content.business_id, stars |-> content.stars,
          self |-> generate_self_url(<<REVIEWS>>, review_id)]

\* the row the INSERT of post_review writes; review_text is NULL when the
\* payload has none
ReviewRow(review_id, content) ==
    [review_id   |-> review_id,
     user_id     |-> Stored(ReviewsColumns.user_id, content.user_id),
     business_id |-> AsInt(content.business_id),
     stars       |-> Stored(ReviewsColumns.stars, content.stars),
     review_text |-> IF "review_text" \in DOMAIN content
                     THEN Stored(ReviewsColumns.review_text, content.review_text)
                     ELSE JNull]

\* POST /reviews: validation and the SELECT of the business
post_review(p) ==
    /\ CanBegin(p)
    /\ \E content \in PostReviewPayloads :
        LET r == Request("post_review", 0, content, NoQuery)
        IN  IF ~validate_business_post_put(content, REVIEWS_REQUIRED_ATTRIBUTES)
            THEN Respond(p, r, 400, POST_PUT_ERROR)
            ELSE IF SelectWhere(businesses, "business_id", content.business_id) = {}
            THEN Respond(p, r, 404, generate_not_found_message(BUSINESSES, "business_id"))
            ELSE Goto(p, r, "post_review_conflict", NoRow)
    /\ UNCHANGED tables

\* post_review with the INSERT issued before the user_id comparison
post_review_conflict_after_insert(p) ==
    /\ pc[p] = "post_review_conflict"
    /\ LET r == req[p]
           content == r.content
           found == SelectWhere(reviews, "business_id", content.business_id)
       IN  IF Cardinality(found) > 1
           THEN /\ Respond(p, r, 500, [Error |-> "Unable to create review"])
                /\ UNCHANGED tables
           ELSE IF found # {}
                   /\ PyEq(ReviewDict(CHOOSE rv \in found : TRUE).user_id, content.user_id)
           THEN /\ reviews' = reviews \cup {ReviewRow(next_review_id, content)}
                /\ next_review_id' = next_review_id + 1
                /\ UNCHANGED <<businesses, next_business_id>>
                /\ Respond(p, r, 409, [Error |-> "You have already submitted a review"])
           ELSE /\ Goto(p, r, "post_review_insert", NoRow)
                /\ UNCHANGED tables

\* POST /reviews: the SELECT of the reviews of the business, read with
\* one_or_none(), and the comparison of its user_id with the submitter's
post_review_conflict(p) ==
    /\ pc[p] = "post_review_conflict"
    /\ LET r == req[p]
           content == r.content
           found == SelectWhere(reviews, "business_id", content.business_id)
       IN  IF Cardinality(found) > 1
           THEN \* one_or_none() raises MultipleResultsFound, caught by the handler
                Respond(p, r, 500, [Error |-> "Unable to create review"])
           ELSE IF found # {}
                   /\ PyEq(ReviewDict(CHOOSE rv \in found : TRUE).user_id, content.user_id)
           THEN Respond(p, r, 409,
                    [Error |-> "You have already submitted a review for this business. You can update your previous review, or delete it and submit a new review"])
           ELSE Goto(p, r, "post_review_insert", NoRow)
    /\ UNCHANGED tables

\* post_review_insert over a reviews table declared without the foreign key
post_review_insert_no_foreign_key(p) ==
    /\ pc[p] = "post_review_insert"
    /\ LET r == req[p]
           content == r.content
           review_id == next_review_id
       IN  IF ~AcceptsAll(ReviewsColumns, ReviewInsertAttributes(content), content)
           THEN /\ Respond(p, r, 500, [Error |-> "Unable to create review"])
                /\ UNCHANGED tables
           ELSE /\ reviews' = reviews \cup {ReviewRow(review_id, content)}
                /\ next_review_id' = next_review_id + 1
                /\ UNCHANGED <<businesses, next_business_id>>
                /\ Respond(p, r, 201, ReviewEcho(review_id, content))

\* post_review_insert over a reviews table with a UNIQUE (user_id,
\* business_id) key: the INSERT of a second row of a pair raises
post_review_insert_unique_key(p) ==
    /\ pc[p] = "post_review_insert"
    /\ LET r == req[p]
           content == r.content
           review_id == next_review_id
       IN  IF \/ ~AcceptsAll(ReviewsColumns, ReviewInsertAttributes(content), content)
              \/ SelectWhere(businesses, "business_id", content.business_id) = {}
              \/ \E rv \in reviews :
                    /\ rv.user_id = ReviewRow(review_id, content).user_id
                    /\ rv.business_id = ReviewRow(review_id, content).business_id
           THEN /\ Respond(p, r, 500, [Error |-> "Unable to create review"])
                /\ UNCHANGED tables
           ELSE /\ reviews' = reviews \cup {ReviewRow(review_id, content)}
                /\ next_review_id' = next_review_id + 1
                /\ UNCHANGED <<businesses, next_business_id>>
                /\ Respond(p, r, 201, ReviewEcho(review_id, content))

\* POST /reviews: the INSERT, last_insert_id(), the commit and the answer
post_review_insert(p) ==
    /\ pc[p] = "post_review_insert"
    /\ LET r == req[p]
           content == r.content
           review_id == next_review_id
       IN  IF \/ ~AcceptsAll(ReviewsColumns, ReviewInsertAttributes(content), content)
              \/ SelectWhere(businesses, "business_id", content.business_id) = {}
           THEN \* a column or the foreign key refuses the row: the INSERT raises
                /\ Respond(p, r, 500, [Error |-> "Unable to create review"])
                /\ UNCHANGED tables
           ELSE /\ reviews' = reviews \cup
                       {ReviewRow(review_id, content)}
                /\ next_review_id' = next_review_id + 1
                /\ UNCHANGED <<businesses, next_business_id>>
                /\ Respond(p, r, 201, ReviewEcho(review_id, content))

\* the response of GET /reviews/<id> over a table content
get_review_response(id, table) ==
    LET found == {rv \in table : rv.review_id = id}
    IN  IF found = {}
        THEN [status |-> 404, body |-> generate_not_found_message(REVIEWS, "review_id")]
        ELSE [status |-> 200,
              body |-> ReviewDict(CHOOSE rv \in found : TRUE) @@ [self |-> <<REVIEWS, id>>]]

\* GET /reviews/<id>
get_review(p) ==
    /\ CanBegin(p)
    /\ \E id \in PathReviewIds :
        LET resp == get_review_response(id, reviews)
        IN  Respond(p, Request("get_review", id, NoContent, NoQuery), resp.status, resp.body)
    /\ UNCHANGED tables

\* PUT /reviews/<id>: validation and the SELECT
put_review(p) ==
    /\ CanBegin(p)
    /\ \E id \in PathReviewIds, content \in PutReviewPayloads :
        LET r == Request("put_review", id, content, NoQuery)
            found == {rv \in reviews : rv.review_id = id}
        IN  IF "stars" \notin DOMAIN content
            THEN Respond(p, r, 400, POST_PUT_ERROR)
            ELSE IF found = {}
            THEN Respond(p, r, 404, generate_not_found_message(REVIEWS, "review_id"))
            ELSE Goto(p, r, "put_review_update", CHOOSE rv \in found : TRUE)
    /\ UNCHANGED tables

\* the attributes the UPDATE of put_review sets
ReviewUpdateAttributes(content) ==
    IF "review_text" \in DOMAIN content THEN {"stars", "review_text"} ELSE {"stars"}

\* a single UPDATE that always sets review_text, to NULL when the payload
\* has none
UpdatedReviewTextAlwaysSet(rv, content) ==
    [rv EXCEPT
        !.stars = Stored(ReviewsColumns.stars, content.stars),
        !.review_text = IF "review_text" \in DOMAIN content
                        THEN Stored(ReviewsColumns.review_text, content.review_text)
                        ELSE JNull]

\* the row rv after the UPDATE of put_review: SET stars, and SET review_text
\* only in the statement used when the payload has a review_text
UpdatedReview(rv, content) ==
    [rv EXCEPT
        !.stars = Stored(ReviewsColumns.stars, content.stars),
        !.review_text = IF "review_text" \in DOMAIN content
                        THEN Stored(ReviewsColumns.review_text, content.review_text)
                        ELSE @]

\* PUT /reviews/<id>: the UPDATE, the commit and the answer built from the
\* row read before
put_review_update(p) ==
    /\ pc[p] = "put_review_update"
    /\ LET r == req[p]
           content == r.content
           has_review_text == "review_text" \in DOMAIN content
           matched == {rv \in reviews : rv.review_id = r.id}
           base_url == <<REVIEWS, r.id>>
       IN  IF matched # {} /\ ~AcceptsAll(ReviewsColumns, ReviewUpdateAttributes(content), content)
           THEN \* the UPDATE raises and nothing catches it
                /\ Respond(p, r, 500, InternalServerError)
                /\ UNCHANGED tables
           ELSE /\ reviews' = (reviews \ matched) \cup
                       {UpdatedReview(rv, content) : rv \in matched}
                /\ UNCHANGED <<businesses, next_business_id, next_review_id>>
                /\ Respond(p, r, 200,
                       [review_id |-> JInt(row[p].review_id),
                        user_id |-> row[p].user_id,
                        stars |-> content.stars,
                        business |-> generate_self_url(base_url, row[p].business_id),
                        review_text |-> IF has_review_text THEN content.review_text
                                        ELSE row[p].review_text,
                        self |-> generate_self_url(base_url, r.id)])

\* DELETE /reviews/<id>: the SELECT
delete_review(p) ==
    /\ CanBegin(p)
    /\ \E id \in PathReviewIds :
        LET r == Request("delete_review", id, NoContent, NoQuery)
        IN  IF {rv \in reviews : rv.review_id = id} = {}
            THEN Respond(p, r, 404, generate_not_found_message(REVIEWS, "review_id"))
            ELSE Goto(p, r, "delete_review_delete", NoRow)
    /\ UNCHANGED tables

\* DELETE /reviews/<id>: the DELETE, the commit and the answer
delete_review_delete(p) ==
    /\ pc[p] = "delete_review_delete"
    /\ reviews' = {rv \in reviews : rv.review_id # req[p].id}
    /\ UNCHANGED <<businesses, next_business_id, next_review_id>>
    /\ Respond(p, req[p], 204, NoContent)

(* --------------------------- specifications ---------------------------- *)

\* a later statement of a handler
Continue(p) ==
    \/ put_business_update(p)
    \/ delete_business_delete(p)
    \/ post_review_conflict(p)
    \/ post_review_insert(p)
    \/ put_review_update(p)
    \/ delete_review_delete(p)

\* requests handled one at a time: a request is received when no other is
\* under way
Turn == AllIdle /\ Started < MaxRequests

Next ==
    \E p \in Procs :
        \/ Turn /\ post_business(p)
        \/ Turn /\ get_businesses(p)
        \/ Turn /\ get_business(p)
        \/ Turn /\ put_business(p)
        \/ Turn /\ delete_business(p)
        \/ Turn /\ post_review(p)
        \/ Turn /\ get_review(p)
        \/ Turn /\ put_review(p)
        \/ Turn /\ delete_review(p)
        \/ Continue(p)

Spec == Init /\ [][Next]_vars

\* requests of the workers interleave between their statements: a free
\* worker receives a request whatever the other one is doing
ConcurrentTurn == Started < MaxConcurrentRequests

NextConc ==
    \E p \in Procs :
        \/ ConcurrentTurn /\ post_business(p)
        \/ ConcurrentTurn /\ get_businesses(p)
        \/ ConcurrentTurn /\ get_business(p)
        \/ ConcurrentTurn /\ put_business(p)
        \/ ConcurrentTurn /\ delete_business(p)
        \/ ConcurrentTurn /\ post_review(p)
        \/ ConcurrentTurn /\ get_review(p)
        \/ ConcurrentTurn /\ put_review(p)
        \/ ConcurrentTurn /\ delete_review(p)
        \/ Continue(p)

SpecConc == Init /\ [][NextConc]_vars

TypeOK ==
    /\ \A b \in businesses : b.business_id \in 1..(next_business_id - 1)
    /\ \A rv \in reviews : rv.review_id \in 1..(next_review_id - 1)
    /\ \A p \in Procs : (pc[p] = "idle") = (req[p] = NoRequest)

(* --------------------------- claims ------------------------------------ *)

\* this step sends a response
Completed == last'.seq # last.seq

\* C1: GET /businesses answers 200 with at most L entries (L = 3 without
\* offset/limit), and the response has a next link iff it has L entries.
C1_NextIffFull ==
    last.req.op = "get_businesses" =>
        LET L == IF last.req.query.present THEN last.req.query.limit ELSE 3
        IN  /\ last.resp.status = 200
            /\ Len(last.resp.body.entries) <= L
            /\ ("next" \in DOMAIN last.resp.body) <=> (Len(last.resp.body.entries) = L)

\* every stored review references a stored business
ReviewsReferenceBusinesses ==
    \A rv \in reviews : \E b \in businesses : b.business_id = rv.business_id

\* a DELETE /businesses/{b} answered 204 leaves no review of b to GET and
\* keeps the reviews of the other businesses
DeleteBusinessCascades ==
    (Completed /\ last'.req.op = "delete_business" /\ last'.resp.status = 204) =>
        LET b == last'.req.id
        IN  /\ \A rv \in reviews :
                 rv.business_id = b => get_review_response(rv.review_id, reviews').status = 404
            /\ \A rv \in reviews : rv.business_id # b => rv \in reviews'
            /\ reviews' \subseteq reviews

C3_OneReviewPerUserAndBusiness ==
    \A r1 \in reviews, r2 \in reviews :
        (r1.user_id = r2.user_id /\ r1.business_id = r2.business_id) => r1 = r2

\* this step sends the response of a POST /reviews whose payload has the
\* three required attributes
ValidPostReviewAnswered ==
    /\ Completed
    /\ last'.req.op = "post_review"
    /\ validate_business_post_put(last'.req.content, REVIEWS_REQUIRED_ATTRIBUTES)

\* C4: a POST /reviews with user_id, business_id and stars that names a
\* stored business and whose user_id is on no stored review of that business
\* answers 201 and adds exactly one review, with the submitted values,
\* however many reviews by other users the business has (no database fault).
C4_PostReviewCreates ==
    [][LET content == last'.req.content
       IN  (/\ ValidPostReviewAnswered
            /\ AcceptsAll(ReviewsColumns, ReviewInsertAttributes(content), content)
            /\ \E b \in businesses : b.business_id = AsInt(content.business_id)
            /\ \A rv \in reviews :
                    rv.business_id = AsInt(content.business_id)
                        => rv.user_id # content.user_id)
           => /\ last'.resp.status = 201
              /\ \E rv \in reviews' \ reviews :
                    /\ reviews' = reviews \cup {rv}
                    /\ rv.user_id.n = AsInt(content.user_id)
                    /\ rv.business_id = AsInt(content.business_id)
                    /\ rv.stars = content.stars
                    /\ rv.review_text = IF "review_text" \in DOMAIN content
                                        THEN content.review_text ELSE JNull]_vars

\* C5: when a stored review of business b carries the submitter's user_id,
\* a valid POST /reviews for b from that user answers 409 and stores no new
\* review, however many other reviews b has.
C5_DuplicateAnswers409 ==
    [][LET content == last'.req.content
       IN  (/\ ValidPostReviewAnswered
            /\ IsNumeric(content.business_id)
            /\ \E rv \in reviews :
                    /\ rv.business_id = AsInt(content.business_id)
                    /\ rv.user_id = content.user_id)
           => /\ last'.resp.status = 409
              /\ reviews' = reviews]_vars

\* this step sends the response of a PUT /businesses/{id} whose id names no
\* stored business
PutOfAbsentBusinessAnswered ==
    /\ Completed
    /\ last'.req.op = "put_business"
    /\ \A b \in businesses : b.business_id # last'.req.id

\* C6 as stated: PUT /businesses/{id} for an id that names no stored
\* business answers 404 for every payload, also one missing required
\* attributes.
C6_Original ==
    [][PutOfAbsentBusinessAnswered => last'.resp.status = 404]_vars

\* C6 as amended: PUT /businesses/{id} for an id that names no stored business
\* answers 404 for every payload that has all six required attributes, and
\* 400 for a payload missing one of them.
C6_PutAbsentBusiness ==
    [][PutOfAbsentBusinessAnswered =>
          last'.resp.status =
              IF validate_business_post_put(last'.req.content, BUSINESSES_REQUIRED_ATTRIBUTES)
              THEN 404 ELSE 400]_vars

\* a complete payload was PUT to an id that names no business: 404
C6_Witness ==
    /\ last.req.op = "put_business"
    /\ validate_business_post_put(last.req.content, BUSINESSES_REQUIRED_ATTRIBUTES)
    /\ \A b \in businesses : b.business_id # last.req.id
    /\ last.resp.status = 404

\* this step sends the response of a POST /reviews whose business_id names no
\* stored business
PostReviewOfAbsentBusinessAnswered ==
    /\ Completed
    /\ last'.req.op = "post_review"
    /\ "business_id" \in DOMAIN last'.req.content
    /\ SelectWhere(businesses, "business_id", last'.req.content.business_id) = {}

\* C7 as stated: POST /reviews whose business_id names no stored business
\* answers 404, for every payload and every interleaving, and stores no
\* review.
C7_Original ==
    [][PostReviewOfAbsentBusinessAnswered =>
          last'.resp.status = 404 /\ reviews' = reviews]_vars

\* C7 as amended: POST /reviews whose business_id names no stored business
\* never answers 201 and stores no review, in every interleaving; it answers
\* 400 when user_id or stars is missing, 500 when the business was deleted
\* between the handler's lookup and its INSERT, and 404 otherwise.
C7_PostReviewAbsentBusiness ==
    [][PostReviewOfAbsentBusinessAnswered =>
          /\ reviews' = reviews
          /\ last'.resp.status # 201
          /\ last'.resp.status =
                IF ~validate_business_post_put(last'.req.content, REVIEWS_REQUIRED_ATTRIBUTES)
                THEN 400
                ELSE IF \E p \in Procs : pc[p] = "post_review_insert" /\ pc'[p] = "idle"
                THEN 500
                ELSE 404]_vars

\* a complete review was posted for a business that is not stored: 404
C7_Witness ==
    /\ last.req.op = "post_review"
    /\ validate_business_post_put(last.req.content, REVIEWS_REQUIRED_ATTRIBUTES)
    /\ SelectWhere(businesses, "business_id", last.req.content.business_id) = {}
    /\ last.resp.status = 404

\* C8: a request answered 400, 404 or 409 leaves both tables as they were
\* before it: no statement before the answer, and not the answering step
\* itself, writes to a table.
C8_ErrorsWriteNothing ==
    [][(~Completed \/ last'.resp.status \in {400, 404, 409})
          => UNCHANGED <<businesses, reviews>>]_vars

\* a duplicate review was refused with 409 over a non-empty reviews table
C8_Witness ==
    /\ last.req.op = "post_review"
    /\ last.resp.status = 409
    /\ reviews # {}

\* v is a non-null value of the type of column col, within its length
ColumnTyped(col, v) ==
    \/ col.type = "INT" /\ v.t = "int" /\ Accepts(col, v)
    \/ col.type = "VARCHAR" /\ v.t = "str" /\ Len(v.s) <= col.len

\* the step answers a POST /businesses of a payload satisfying Pre with 201
\* and an id no stored business has, and a GET /businesses/{id} of that id
\* sent right after the POST answers 200 with the posted values
PostThenGet(Pre(_)) ==
    /\ (Completed /\ last'.req.op = "post_business" /\ Pre(last'.req.content))
          => /\ last'.resp.status = 201
             /\ \A b \in businesses : b.business_id # AsInt(last'.resp.body.id)
    /\ (/\ Completed
        /\ last'.req.op = "get_business"
        /\ last.req.op = "post_business"
        /\ Pre(last.req.content)
        /\ last.resp.status = 201
        /\ last'.req.id = AsInt(last.resp.body.id))
          => /\ last'.resp.status = 200
             /\ last'.resp.body.id = last.resp.body.id
             /\ \A a \in BUSINESSES_REQUIRED_ATTRIBUTES :
                    last'.resp.body[a] = last.req.content[a]

HasRequiredAttributes(content) ==
    validate_business_post_put(content, BUSINESSES_REQUIRED_ATTRIBUTES)

HasTypedRequiredAttributes(content) ==
    /\ validate_business_post_put(content, BUSINESSES_REQUIRED_ATTRIBUTES)
    /\ \A a \in BUSINESSES_REQUIRED_ATTRIBUTES : ColumnTyped(BusinessesColumns[a], content[a])

\* C9 as stated: for every payload containing all six required attributes,
\* POST /businesses answers 201 with a fresh id and the GET /businesses/{id}
\* issued next answers 200 with the six posted values and that id.
C9_Original ==
    [][PostThenGet(HasRequiredAttributes)]_vars

\* C9 as amended: the same, for every payload whose six required attributes
\* are non-null values of their column's type and length (integers for
\* owner_id and zip_code, strings for the others).
C9_PostThenGet ==
    [][PostThenGet(HasTypedRequiredAttributes)]_vars

\* the first request posted a business, the second read it back
C9_Witness ==
    /\ last.seq = 2
    /\ last.req.op = "get_business"
    /\ last.resp.status = 200
    /\ next_business_id = 2

\* C10: a POST /reviews that has passed its existence and conflict checks
\* inserts its row and answers 201 also when a review of the same user and
\* business was stored in the meantime, so two interleaved requests of one
\* user for one business both answer 201 and leave two reviews of the pair.
C10_RacingPostsBothInsert ==
    [][\A p \in Procs :
          LET content == req[p].content
          IN  (/\ pc[p] = "post_review_insert"
               /\ pc'[p] = "idle"
               /\ AcceptsAll(ReviewsColumns, ReviewInsertAttributes(content), content)
               /\ SelectWhere(businesses, "business_id", content.business_id) # {}
               /\ \E rv \in reviews :
                     /\ rv.user_id = content.user_id
                     /\ rv.business_id = AsInt(content.business_id))
              => /\ last'.resp.status = 201
                 /\ \E r1 \in reviews', r2 \in reviews' :
                       /\ r1 # r2
                       /\ r1.user_id = content.user_id /\ r2.user_id = content.user_id
                       /\ r1.business_id = r2.business_id]_vars

\* after one business was created, two POST /reviews of the same integer
\* user_id both answered and the only business holds two reviews of that user
C10_Witness ==
    /\ last.seq = 3
    /\ next_business_id = 2
    /\ last.req.op = "post_review"
    /\ last.resp.status = 201
    /\ last.req.content.user_id.t = "int"
    /\ Cardinality({rv \in reviews : rv.user_id = last.req.content.user_id}) = 2
    /\ Cardinality({rv.business_id : rv \in reviews}) = 1

\* C11: a PUT /reviews/{id} answered 200 changes only the targeted review:
\* it sets stars, sets review_text when the payload has one and leaves the
\* stored review_text otherwise; the review's user_id, business_id and
\* review_id, every other review and every business stay as they were.
C11_PutReviewFrame ==
    [][(Completed /\ last'.req.op = "put_review" /\ last'.resp.status = 200) =>
          LET id == last'.req.id
              content == last'.req.content
          IN  /\ businesses' = businesses
              /\ \E old \in reviews, new \in reviews' :
                    /\ old.review_id = id
                    /\ new.review_id = id
                    /\ new.user_id = old.user_id
                    /\ new.business_id = old.business_id
                    /\ new.stars.n = AsInt(content.stars)
                    /\ new.review_text = IF "review_text" \in DOMAIN content
                                         THEN content.review_text
                                         ELSE old.review_text
                    /\ reviews' \ {new} = reviews \ {old}]_vars

\* a review posted with stars 4 and a text was PUT with stars only: the
\* stars changed and the text posted is still stored
C11_Witness ==
    /\ last.req.op = "put_review"
    /\ last.resp.status = 200
    /\ "review_text" \notin DOMAIN last.req.content
    /\ \E rv \in reviews :
          /\ rv.review_id = last.req.id
          /\ rv.stars = last.req.content.stars
          /\ rv.stars # JInt(4)
          /\ rv.review_text = JStr("good")

====
